---- MODULE Spec2Model ----
(***************************************************************************)
(* A state-machine model of emailtools.py: the Email builder (elementList, *)
(* imageList, imageCount and the MIME root it fills) and the EmailServer   *)
(* (its SMTP session, defaultReceivers, send and initFromJson).            *)
(*                                                                         *)
(* A Python str that the code inspects character by character (the         *)
(* argument of addText) is a sequence of one-character strings; rendered   *)
(* HTML and header values are TLA+ strings built with \o.                  *)
(***************************************************************************)
EXTENDS Integers, Sequences, FiniteSets, TLC

VARIABLES
    elementList,   \* Email.elementList: the rendered HTML elements, in order
    imageList,     \* Email.imageList: <<index, png bytes>> pairs
    imageCount,    \* Email.imageCount
    rootHeaders,   \* the headers of Email.root, in the order they were set
    rootParts,     \* the parts attached to Email.root, in order
    server,        \* the EmailServer object, or NoServer
    outbox,        \* the sendmail calls made on the SMTP session
    last,          \* the most recent call: its name, arguments and outcome
    arg            \* the text under test (SpecText draws it in Init)

vars == <<elementList, imageList, imageCount, rootHeaders, rootParts,
          server, outbox, last, arg>>

mailVars == <<elementList, imageList, imageCount, rootHeaders, rootParts>>

-----------------------------------------------------------------------------
(* Bounds *)

MaxTextLen == 4     \* longest generated text, in characters
MaxElems == 2       \* add* calls are taken while elementList is shorter
MaxBuilds == 2      \* toBytes calls per Email
MaxHeaders == 6     \* headers on a root before send is no longer taken
MaxItems == 2       \* items passed to Email.sequence

-----------------------------------------------------------------------------
(* Characters and strings *)

Alphabet == {"#", " ", "a", "-", "\n"}

\* Python's \w for the characters used here: letters, digits, underscore.
WordChars == {"a", "H", "e", "d", "r", "p", "l", "i", "n"}

\* str.lstrip() with no argument strips these.
Whitespace == {" ", "\n"}

RECURSIVE SeqsUpTo(_, _)
SeqsUpTo(S, n) ==
    IF n = 0 THEN {<<>>}
    ELSE LET shorter == SeqsUpTo(S, n - 1)
         IN  shorter \cup {Append(s, c) : s \in {t \in shorter : Len(t) = n - 1}, c \in S}

\* The characters of a sequence as one string.
RECURSIVE Join(_)
Join(cs) == IF cs = <<>> THEN "" ELSE Head(cs) \o Join(Tail(cs))

\* sep.join(strs)
RECURSIVE JoinWith(_, _)
JoinWith(sep, strs) ==
    IF strs = <<>> THEN ""
    ELSE IF Len(strs) = 1 THEN strs[1]
    ELSE strs[1] \o sep \o JoinWith(sep, Tail(strs))

\* s[n:] for 0 <= n
Drop(s, n) == SubSeq(s, n + 1, Len(s))

\* str.lstrip()
RECURSIVE LStrip(_)
LStrip(s) ==
    IF s # <<>> /\ Head(s) \in Whitespace THEN LStrip(Tail(s)) ELSE s

\* str.find(c): the 0-based index of the first c, or -1.
Find(s, c) ==
    IF \E i \in 1..Len(s) : s[i] = c
    THEN (CHOOSE i \in 1..Len(s) : s[i] = c /\ \A j \in 1..(i - 1) : s[j] # c) - 1
    ELSE -1

-----------------------------------------------------------------------------
(* HEAD_RE = re.compile(r"^\W*#+ .*$"), used with .match().                *)
(* The pattern is run as an automaton over the text.  Its positions:       *)
(*   0  inside \W*        1  inside #+ (one or more '#' read)               *)
(*   2  inside .* (the space read)   3  the final line break read, at $    *)

HeadReStep(q, c) ==
    CASE q = 0 -> (IF c \notin WordChars THEN {0} ELSE {})
                  \cup (IF c = "#" THEN {1} ELSE {})
      [] q = 1 -> (IF c = "#" THEN {1} ELSE {})
                  \cup (IF c = " " THEN {2} ELSE {})
      [] q = 2 -> (IF c # "\n" THEN {2} ELSE {3})
      [] OTHER -> {}

RECURSIVE HeadReRun(_, _)
HeadReRun(Q, s) ==
    IF s = <<>> THEN Q
    ELSE HeadReRun(UNION {HeadReStep(q, Head(s)) : q \in Q}, Tail(s))

\* The pattern with #* written for #+.
HEAD_RE_match_Star(text) == HeadReRun({0, 1}, text) \cap {2, 3} # {}

HEAD_RE_match(text) == HeadReRun({0}, text) \cap {2, 3} # {}

-----------------------------------------------------------------------------
(* Email: text elements *)

HeadElement(text, level) ==
    "<h" \o ToString(level) \o ">" \o text \o "</h" \o ToString(level) \o ">"

ParagraphElement(text) == "<p>" \o text \o "</p>"

\* The element Email.addText appends for `text`.
AddTextElement(text) ==
    IF HEAD_RE_match(text)
    THEN LET head == LStrip(text)
             level == Find(head, " ") + 1
         IN  HeadElement(Join(LStrip(Drop(head, level))), level)
    ELSE ParagraphElement(Join(text))

addHead(text, level) ==
    /\ Len(elementList) < MaxElems
    /\ elementList' = Append(elementList, HeadElement(Join(text), level))
    /\ last' = [op |-> "addHead", text |-> text, level |-> level, err |-> "none"]
    /\ UNCHANGED <<imageList, imageCount, rootHeaders, rootParts, server, outbox, arg>>

addParagraph(text) ==
    /\ Len(elementList) < MaxElems
    /\ elementList' = Append(elementList, ParagraphElement(Join(text)))
    /\ last' = [op |-> "addParagraph", text |-> text, err |-> "none"]
    /\ UNCHANGED <<imageList, imageCount, rootHeaders, rootParts, server, outbox, arg>>

addText(text) ==
    /\ Len(elementList) < MaxElems
    /\ elementList' = Append(elementList, AddTextElement(text))
    /\ last' = [op |-> "addText", text |-> text, err |-> "none"]
    /\ UNCHANGED <<imageList, imageCount, rootHeaders, rootParts, server, outbox, arg>>

-----------------------------------------------------------------------------
(* Python values handed to addTable and Email.sequence.  A value is a      *)
(* record tagged with its type: str (v: characters), int (v: number),      *)
(* list (v: the items), image (v: a name; png: whether Image.save can      *)
(* write it as PNG), df (columns, values), none.                           *)

PyNone == [t |-> "none"]
PyStrV(cs) == [t |-> "str", v |-> cs]
PyInt(n) == [t |-> "int", v |-> n]
PyList(items) == [t |-> "list", v |-> items]
PyImage(name, ok) == [t |-> "image", v |-> name, png |-> ok]
PyDataFrame(cols, rows) == [t |-> "df", columns |-> cols, values |-> rows]

\* isinstance(x, str)
IsStr(x) == x.t = "str"

\* isinstance(x, collections.abc.Sequence)
IsSequence(x) == x.t \in {"str", "list"}

\* Whether `for i in x` is possible.
IsIterable(x) == x.t \in {"str", "list"}

\* The items `for i in x` yields.
IterItems(x) ==
    IF x.t = "str" THEN [k \in 1..Len(x.v) |-> PyStrV(<<x.v[k]>>)] ELSE x.v

\* bool(x) of a sequence
Truthy(x) == x.t # "none" /\ x.v # <<>>

\* repr(x) of a str or an int
ReprAtom(x) == IF x.t = "str" THEN "'" \o Join(x.v) \o "'" ELSE ToString(x.v)

\* f"{x}" of a str, an int, or a list of these
Format(x) ==
    CASE x.t = "str" -> Join(x.v)
      [] x.t = "int" -> ToString(x.v)
      [] x.t = "list" ->
            "[" \o JoinWith(", ", [k \in 1..Len(x.v) |-> ReprAtom(x.v[k])]) \o "]"
      [] OTHER -> "None"

-----------------------------------------------------------------------------
(* Email.addTable *)

Cells(row) ==
    LET items == IterItems(row)
    IN  [k \in 1..Len(items) |-> "<td>" \o Format(items[k]) \o "</td>"]

RECURSIVE Flatten(_)
Flatten(ss) == IF ss = <<>> THEN <<>> ELSE Head(ss) \o Flatten(Tail(ss))

\* The list e that addTable builds.  `content` and `head` are sequences of
\* Python values, or PyNone for an absent head or caption.
TableElements(content, head, caption) ==
    <<"<table border=\"1\" cellspacing=\"0\" cellpadding=\"0\">">>
    \o (IF caption # PyNone
        THEN <<"<caption>" \o Format(caption) \o "</caption>">> ELSE <<>>)
    \o (IF head # PyNone
        THEN <<"<thead><tr>">> \o Cells(head) \o <<"</tr></thead>">> ELSE <<>>)
    \o <<"<tbody>">>
    \o Flatten([k \in 1..Len(content) |-> <<"<tr>">> \o Cells(content[k]) \o <<"</tr>">>])
    \o <<"</tbody>", "</table>">>

\* addTable raises TypeError at `for i in row` (or `for i in head`) when a
\* row is not iterable; nothing has been appended to elementList by then.
TableRaises(content, head) ==
    \/ head # PyNone /\ ~IsIterable(head)
    \/ \E k \in 1..Len(content) : ~IsIterable(content[k])

addTable(content, head, caption) ==
    /\ Len(elementList) < MaxElems
    /\ IF TableRaises(content, head)
       THEN /\ elementList' = elementList
            /\ last' = [op |-> "addTable", content |-> content, err |-> "TypeError"]
       ELSE /\ elementList' = elementList \o TableElements(content, head, caption)
            /\ last' = [op |-> "addTable", content |-> content, err |-> "none"]
    /\ UNCHANGED <<imageList, imageCount, rootHeaders, rootParts, server, outbox, arg>>

-----------------------------------------------------------------------------
(* Email.addImage *)

ImgElement(n) == "<p><img src=\"cid:img" \o ToString(n) \o "\"/></p>"

\* buf.getvalue() after img.save(buf, "png")
PngBytes(img) == "PNG:" \o img.v

\* The <img> element is appended first; img.save raises for an image that
\* cannot be written as PNG, and the two statements after it are then skipped.
addImage(img) ==
    /\ Len(elementList) < MaxElems
    /\ elementList' = Append(elementList, ImgElement(imageCount))
    /\ IF img.png
       THEN /\ imageList' = Append(imageList, <<imageCount, PngBytes(img)>>)
            /\ imageCount' = imageCount + 1
            /\ last' = [op |-> "addImage", img |-> img, err |-> "none"]
       ELSE /\ UNCHANGED <<imageList, imageCount>>
            /\ last' = [op |-> "addImage", img |-> img, err |-> "OSError"]
    /\ UNCHANGED <<rootHeaders, rootParts, server, outbox, arg>>

-----------------------------------------------------------------------------
(* Email.toBytes *)

subject == "The subject"

HTML_CSS == "table {...}"

Html(elems) ==
    "<html><head><style>" \o HTML_CSS \o "</style></head><body>"
    \o JoinWith("\n", elems) \o "</body></html>"

HeaderField(name, value) == [name |-> name, value |-> value]

BodyPart(elems) == [ctype |-> "text/html", cid |-> "", payload |-> Html(elems)]

ImagePart(entry) ==
    [ctype |-> "image/png", cid |-> "<img" \o ToString(entry[1]) \o ">",
     payload |-> entry[2]]

\* The headers of root after toBytes: root["Subject"] = ... adds a field and
\* removes none.
HeadersAfterToBytes(headers) == Append(headers, HeaderField("Subject", subject))

\* A build that starts from an empty root.
PartsAfterToBytes_Fresh(parts, elems, images) ==
    <<BodyPart(elems)>> \o [k \in 1..Len(images) |-> ImagePart(images[k])]

\* The parts of root after toBytes: the body, then one part per stored image,
\* attached after the parts already there.
PartsAfterToBytes(parts, elems, images) ==
    parts \o <<BodyPart(elems)>> \o [k \in 1..Len(images) |-> ImagePart(images[k])]

\* root.as_bytes(): the headers and the parts, in order.
AsBytes(headers, parts) == [headers |-> headers, parts |-> parts]

CountHeaders(headers, name) == Cardinality({k \in 1..Len(headers) : headers[k].name = name})

CountParts(parts, ctype) == Cardinality({k \in 1..Len(parts) : parts[k].ctype = ctype})

toBytes ==
    /\ CountParts(rootParts, "text/html") < MaxBuilds
    /\ rootHeaders' = HeadersAfterToBytes(rootHeaders)
    /\ rootParts' = PartsAfterToBytes(rootParts, elementList, imageList)
    /\ last' = [op |-> "toBytes", err |-> "none",
                bytes |-> AsBytes(rootHeaders', rootParts')]
    /\ UNCHANGED <<elementList, imageList, imageCount, server, outbox, arg>>

-----------------------------------------------------------------------------
(* Nicknames are sequences of Unicode code points; Email._encodeNikename.  *)

B64Chars ==
    <<
      "A", "B", "C", "D", "E", "F", "G", "H", "I", "J", "K", "L", "M", "N",
      "O", "P", "Q", "R", "S", "T", "U", "V", "W", "X", "Y", "Z", "a", "b",
      "c", "d", "e", "f", "g", "h", "i", "j", "k", "l", "m", "n", "o", "p",
      "q", "r", "s", "t", "u", "v", "w", "x", "y", "z", "0", "1", "2", "3",
      "4", "5", "6", "7", "8", "9", "+", "/"
    >>

\* The character of an ASCII letter or digit.
Chr(c) ==
    CASE c \in 65..90 -> B64Chars[c - 64]
      [] c \in 97..122 -> B64Chars[c - 70]
      [] c \in 48..57 -> B64Chars[c + 5]
      [] OTHER -> "?"

Str(name) == Join([k \in 1..Len(name) |-> Chr(name[k])])

\* str.isascii()
IsAscii(name) == \A k \in 1..Len(name) : name[k] < 128

\* name.encode("utf-8"), for code points below 65536
Utf8Char(c) ==
    IF c < 128 THEN <<c>>
    ELSE IF c < 2048 THEN <<192 + (c \div 64), 128 + (c % 64)>>
    ELSE <<224 + (c \div 4096), 128 + ((c \div 64) % 64), 128 + (c % 64)>>

Utf8(name) == Flatten([k \in 1..Len(name) |-> Utf8Char(name[k])])

\* base64.b64encode(bytes).decode("ascii")
RECURSIVE B64Encode(_)
B64Encode(bs) ==
    IF bs = <<>> THEN ""
    ELSE IF Len(bs) = 1 THEN
        B64Chars[(bs[1] \div 4) + 1] \o B64Chars[((bs[1] % 4) * 16) + 1] \o "=="
    ELSE IF Len(bs) = 2 THEN
        B64Chars[(bs[1] \div 4) + 1]
        \o B64Chars[((bs[1] % 4) * 16) + (bs[2] \div 16) + 1]
        \o B64Chars[((bs[2] % 16) * 4) + 1] \o "="
    ELSE
        B64Chars[(bs[1] \div 4) + 1]
        \o B64Chars[((bs[1] % 4) * 16) + (bs[2] \div 16) + 1]
        \o B64Chars[((bs[2] % 16) * 4) + (bs[3] \div 64) + 1]
        \o B64Chars[(bs[3] % 64) + 1]
        \o B64Encode(Drop(bs, 3))

_encodeNikename(name) ==
    IF IsAscii(name) THEN Str(name)
    ELSE "\"=?utf-8?B?" \o B64Encode(Utf8(name)) \o "?=\""

-----------------------------------------------------------------------------
(* Receiver maps: a dict is its items in insertion order, <<addr, name>>   *)
(* pairs with distinct addresses; an absent argument is PyNone.            *)

PyDict(items) == [t |-> "dict", v |-> items]

\* receivers.keys()
Keys(receivers) == [k \in 1..Len(receivers.v) |-> receivers.v[k][1]]

Mailbox(name, addr) == _encodeNikename(name) \o " <" \o addr \o ">"

\* The header Email._setSender sets.
SenderHeader(name, addr) == HeaderField("From", Mailbox(name, addr))

\* The header Email._setReceivers sets.
ReceiversHeader(receivers) ==
    HeaderField("To",
        JoinWith(";", [k \in 1..Len(receivers.v) |->
                          Mailbox(receivers.v[k][2], receivers.v[k][1])]))

-----------------------------------------------------------------------------
(* EmailServer *)

\* EmailServer.__init__ when SMTP_SSL(host) and login succeed.
ServerNew(host, userName, userAddr) ==
    [open |-> TRUE, host |-> host, userName |-> userName, userAddr |-> userAddr,
     defaultReceivers |-> PyNone]

\* The default tested with `is not None` instead of bool().
Resolve_DefaultNotNone(receivers, defaultReceivers) ==
    IF Truthy(receivers) THEN receivers
    ELSE IF defaultReceivers # PyNone THEN defaultReceivers
    ELSE PyNone

\* The stored default tested before the argument.
Resolve_DefaultFirst(receivers, defaultReceivers) ==
    IF Truthy(defaultReceivers) THEN defaultReceivers
    ELSE IF Truthy(receivers) THEN receivers
    ELSE PyNone

\* The receivers send goes on with, or PyNone where it raises ValueError.
Resolve(receivers, defaultReceivers) ==
    IF Truthy(receivers) THEN receivers
    ELSE IF Truthy(defaultReceivers) THEN defaultReceivers
    ELSE PyNone

\* EmailServer.send(mail, receivers).  _setSender runs before the receivers
\* are resolved.  sendmail is accepted by the SMTP server or raises.
send(receivers, accepted) ==
    /\ server.open
    /\ Len(rootHeaders) < MaxHeaders
    /\ CountParts(rootParts, "text/html") < MaxBuilds
    /\ LET withFrom == Append(rootHeaders, SenderHeader(server.userName, server.userAddr))
           effective == Resolve(receivers, server.defaultReceivers)
       IN  IF effective = PyNone
           THEN /\ rootHeaders' = withFrom
                /\ last' = [op |-> "send", receivers |-> receivers, err |-> "ValueError"]
                /\ UNCHANGED <<rootParts, outbox>>
           ELSE /\ rootHeaders' =
                       HeadersAfterToBytes(Append(withFrom, ReceiversHeader(effective)))
                /\ rootParts' = PartsAfterToBytes(rootParts, elementList, imageList)
                /\ outbox' = Append(outbox,
                       [from |-> server.userAddr, to |-> Keys(effective),
                        msg |-> AsBytes(rootHeaders', rootParts'),
                        accepted |-> accepted])
                /\ last' = [op |-> "send", receivers |-> receivers,
                            err |-> IF accepted THEN "none" ELSE "SMTPException"]
    /\ UNCHANGED <<elementList, imageList, imageCount, server, arg>>

-----------------------------------------------------------------------------
(* Email.sequence(subject, *items): a new Email filled from the items.     *)

\* The import guards at the top of the module: pillow and pandas are there.
_USING_PIL == TRUE
_USING_PANDAS == TRUE

NewMail ==
    [elementList |-> <<>>, imageList |-> <<>>, imageCount |-> 0,
     err |-> "none", where |-> "none"]

Raise(m, err, where) == [m EXCEPT !.err = err, !.where = where]

\* mail.addTable(content, head) inside sequence
MailAddTable(m, content, head) ==
    IF TableRaises(content, head) THEN Raise(m, "TypeError", "addTable")
    ELSE [m EXCEPT !.elementList = @ \o TableElements(content, head, PyNone)]

\* mail.addImage(img) inside sequence
MailAddImage(m, img) ==
    LET tagged == [m EXCEPT !.elementList = Append(@, ImgElement(m.imageCount))]
    IN  IF img.png
        THEN [tagged EXCEPT !.imageList = Append(@, <<m.imageCount, PngBytes(img)>>),
                            !.imageCount = @ + 1]
        ELSE Raise(tagged, "OSError", "addImage")

\* The loop turn without the else branch that wraps a flat sequence as a row.
SequenceItem_FlatRaises(m, i) ==
    IF IsStr(i) THEN
        [m EXCEPT !.elementList = Append(@, AddTextElement(i.v))]
    ELSE IF IsSequence(i) /\ i.v # <<>> /\ IsSequence(i.v[1]) THEN
        MailAddTable(m, i.v, PyNone)
    ELSE IF _USING_PIL /\ i.t = "image" THEN
        MailAddImage(m, i)
    ELSE IF _USING_PANDAS /\ i.t = "df" THEN
        MailAddTable(m, i.values, PyList(i.columns))
    ELSE Raise(m, "TypeError", "sequence")

\* One turn of the loop over items.
SequenceItem(m, i) ==
    IF IsStr(i) THEN
        [m EXCEPT !.elementList = Append(@, AddTextElement(i.v))]
    ELSE IF IsSequence(i) THEN
        IF i.v # <<>> /\ IsSequence(i.v[1])
        THEN MailAddTable(m, i.v, PyNone)
        ELSE MailAddTable(m, <<i>>, PyNone)
    ELSE IF _USING_PIL /\ i.t = "image" THEN
        MailAddImage(m, i)
    ELSE IF _USING_PANDAS /\ i.t = "df" THEN
        MailAddTable(m, i.values, PyList(i.columns))
    ELSE Raise(m, "TypeError", "sequence")

\* The loop: it ends at the first item that raises.
RECURSIVE SequenceLoop(_, _)
SequenceLoop(m, items) ==
    IF items = <<>> \/ m.err # "none" THEN m
    ELSE SequenceLoop(SequenceItem(m, Head(items)), Tail(items))

\* mail = Email.sequence(subject, *items): the new Email replaces the one
\* held, unless the constructor raises and nothing is returned.
sequence(items) ==
    LET m == SequenceLoop(NewMail, items)
    IN  /\ IF m.err = "none"
           THEN /\ elementList' = m.elementList
                /\ imageList' = m.imageList
                /\ imageCount' = m.imageCount
                /\ rootHeaders' = <<>>
                /\ rootParts' = <<>>
           ELSE UNCHANGED mailVars
        /\ last' = [op |-> "sequence", items |-> items, err |-> m.err,
                    where |-> m.where]
        /\ UNCHANGED <<server, outbox, arg>>

-----------------------------------------------------------------------------
(* EmailServer.initFromJson.  cfg is the mapping json.load returns: a      *)
(* function from the keys the file has to their values.                    *)

ConstructorKeys == <<"host", "name", "addr", "key">>

RequiredKeys == {"host", "name", "addr", "key", "receivers"}

\* The exception kind the except clause names.
HandledKind == "IndexError"

\* What the try block raises: cfg[k] of an absent key is a KeyError, the
\* constructor raises when the session cannot be opened, cfg.pop("receivers")
\* of an absent key is a KeyError.
TryRaises(cfg, connects) ==
    IF \E k \in 1..Len(ConstructorKeys) : ConstructorKeys[k] \notin DOMAIN cfg
        THEN "KeyError"
    ELSE IF ~connects THEN "SMTPException"
    ELSE IF "receivers" \notin DOMAIN cfg THEN "KeyError"
    ELSE "none"

\* Whether the local name `server` was assigned inside the try block.
ServerBound(cfg, connects) ==
    /\ \A k \in 1..Len(ConstructorKeys) : ConstructorKeys[k] \in DOMAIN cfg
    /\ connects

\* The call's outcome: the error that leaves it ("none" when it returns),
\* and whether the handler printed CONFIG_TEMPLATE.
InitFromJsonOutcome(cfg, connects) ==
    LET raised == TryRaises(cfg, connects)
    IN  IF raised = "none" THEN [err |-> "none", printed |-> FALSE]
        ELSE IF raised = HandledKind
            THEN [err |-> IF ServerBound(cfg, connects)
                          THEN "none" ELSE "UnboundLocalError",
                  printed |-> TRUE]
        ELSE [err |-> raised, printed |-> FALSE]

initFromJson(cfg, connects) ==
    LET out == InitFromJsonOutcome(cfg, connects)
    IN  /\ IF out.err = "none"
           THEN server' = [ServerNew(cfg["host"], cfg["name"], cfg["addr"])
                              EXCEPT !.defaultReceivers =
                                  IF "receivers" \in DOMAIN cfg
                                  THEN cfg["receivers"] ELSE PyNone]
           ELSE server' = server
        /\ last' = [op |-> "initFromJson", cfg |-> cfg, connects |-> connects,
                    err |-> out.err,
                    printed |-> out.printed, returned |-> out.err = "none"]
        /\ UNCHANGED <<elementList, imageList, imageCount, rootHeaders, rootParts,
                       outbox, arg>>

-----------------------------------------------------------------------------
(* The objects before any call *)

NoServer == [open |-> FALSE]

NoCall == [op |-> "none", err |-> "none"]

\* Email.__init__
EmailInit ==
    /\ elementList = <<>>
    /\ imageList = <<>>
    /\ imageCount = 0
    /\ rootHeaders = <<>>
    /\ rootParts = <<>>

\* An Email already held: a paragraph and an image were added to it.
HeldMail ==
    /\ elementList = <<ParagraphElement(Join(<<"p", "l", "a", "i", "n">>)), ImgElement(0)>>
    /\ imageList = <<<<0, PngBytes(PyImage("A", TRUE))>>>>
    /\ imageCount = 1
    /\ rootHeaders = <<>>
    /\ rootParts = <<>>

-----------------------------------------------------------------------------
(* SpecText: addHead, addParagraph and addText applied to one text.        *)

DocExample == <<"#", "#", " ", "H", "e", "a", "d", "e", "r">>
PlainExample == <<"p", "l", "a", "i", "n">>

Texts == SeqsUpTo(Alphabet, MaxTextLen) \cup {DocExample, PlainExample}

Levels == 1..2

InitText ==
    /\ EmailInit
    /\ server = NoServer
    /\ outbox = <<>>
    /\ last = NoCall
    /\ arg \in Texts

AddHeadArg == \E level \in Levels : addHead(arg, level)
AddParagraphArg == addParagraph(arg)
AddTextArg == addText(arg)

NextText == AddHeadArg \/ AddParagraphArg \/ AddTextArg

SpecText == InitText /\ [][NextText]_vars

-----------------------------------------------------------------------------
(* Spec: an Email filled by add* calls and built by toBytes.               *)

SomeTexts == {DocExample, PlainExample}

ImageA == PyImage("A", TRUE)
ImageB == PyImage("B", TRUE)
ImageCmyk == PyImage("C", FALSE)
Images == {ImageA, ImageB, ImageCmyk}

Row12 == PyList(<<PyInt(1), PyInt(2)>>)
Row3 == PyList(<<PyInt(3)>>)
RowAb == PyStrV(<<"a", "b">>)

Contents == {<<>>, <<Row12>>, <<Row12, Row3>>, <<RowAb>>, <<Row3, PyInt(2)>>}
TableHeads == {PyNone, PyList(<<PyStrV(<<"x">>), PyStrV(<<"y">>)>>)}
Captions == {PyNone, PyStrV(<<"c", "a", "p">>)}

Init ==
    /\ EmailInit
    /\ server = NoServer
    /\ outbox = <<>>
    /\ last = NoCall
    /\ arg = <<>>

AddHead == \E text \in SomeTexts, level \in Levels : addHead(text, level)
AddParagraph == \E text \in SomeTexts : addParagraph(text)
AddText == \E text \in SomeTexts : addText(text)
AddTable ==
    \E content \in Contents, head \in TableHeads, caption \in Captions :
        addTable(content, head, caption)
AddImage == \E img \in Images : addImage(img)
ToBytes == toBytes

Next == AddHead \/ AddParagraph \/ AddText \/ AddTable \/ AddImage \/ ToBytes

Spec == Init /\ [][Next]_vars

-----------------------------------------------------------------------------
(* SpecSend: send calls on one Email through one open EmailServer.         *)

NameAl == <<65, 108>>
NameZoe == <<90, 111, 235>>
Nicknames == {NameAl, NameZoe}

PairA == <<"a@x.com", NameAl>>
PairB == <<"b@x.com", NameZoe>>
Dicts == {PyDict(<<>>), PyDict(<<PairA>>), PyDict(<<PairB>>),
          PyDict(<<PairA, PairB>>), PyDict(<<PairB, PairA>>)}

ReceiverArgs == {PyNone} \cup Dicts

InitSend ==
    /\ EmailInit \/ HeldMail
    /\ \E name \in Nicknames, dflt \in ReceiverArgs :
          server = [ServerNew("smtp.x.com", name, "me@x.com")
                        EXCEPT !.defaultReceivers = dflt]
    /\ outbox = <<>>
    /\ last = NoCall
    /\ arg = <<>>

Send == \E receivers \in ReceiverArgs, accepted \in BOOLEAN : send(receivers, accepted)

NextSend == Send

SpecSend == InitSend /\ [][NextSend]_vars

-----------------------------------------------------------------------------
(* SpecSeq: Email.sequence on short item lists.                            *)

ListFlat == Row12
ListEmpty == PyList(<<>>)
List2D == PyList(<<Row12, Row3>>)
ListStrs == PyList(<<RowAb, PyStrV(<<"a">>)>>)
ListRagged == PyList(<<Row3, PyInt(2)>>)
ListMixed == PyList(<<PyInt(1), RowAb>>)
Frame == PyDataFrame(<<PyStrV(<<"x">>)>>, <<Row3>>)

Items ==
    {PyStrV(DocExample), PyStrV(PlainExample), PyInt(7), PyNone,
     ListFlat, ListEmpty, List2D, ListStrs, ListRagged, ListMixed,
     ImageA, ImageCmyk, Frame}

InitSeq ==
    /\ EmailInit \/ HeldMail
    /\ server = NoServer
    /\ outbox = <<>>
    /\ last = NoCall
    /\ arg \in SeqsUpTo(Items, MaxItems)

Sequence == sequence(arg)

NextSeq == Sequence

SpecSeq == InitSeq /\ [][NextSeq]_vars

-----------------------------------------------------------------------------
(* SpecCfg: EmailServer.initFromJson on configuration mappings.            *)

FullCfgs ==
    {[k \in RequiredKeys |->
        CASE k = "host" -> "smtp.x.com"
          [] k = "name" -> name
          [] k = "addr" -> "me@x.com"
          [] k = "key" -> "secret"
          [] OTHER -> rcv] : name \in Nicknames, rcv \in Dicts}

Cfgs == {[k \in K |-> full[k]] : full \in FullCfgs, K \in SUBSET RequiredKeys}

InitFromJson == \E cfg \in Cfgs, connects \in BOOLEAN : initFromJson(cfg, connects)

NextCfg == InitFromJson

SpecCfg == Init /\ [][NextCfg]_vars

-----------------------------------------------------------------------------
(* Properties *)

LastElement == elementList[Len(elementList)]

\* The header pattern, stated on the text: positions i and j such that the
\* first i characters are non-word characters, characters i+1..j are '#'
\* (at least one), character j+1 is a space, and the content after it holds
\* no line break except as the very last character.
HeaderSplits(t) ==
    {ij \in (0..Len(t)) \X (1..Len(t)) :
        /\ ij[1] < ij[2]
        /\ \A k \in 1..ij[1] : t[k] \notin WordChars
        /\ \A k \in (ij[1] + 1)..ij[2] : t[k] = "#"
        /\ ij[2] + 1 <= Len(t)
        /\ t[ij[2] + 1] = " "
        /\ \A k \in (ij[2] + 2)..Len(t) : t[k] # "\n" \/ k = Len(t)}

MatchesHeaderPattern(t) == HeaderSplits(t) # {}

\* Some header element whose content is the end of the text.
IsHeaderOf(e, t) ==
    \E level \in 0..(Len(t) + 1), n \in 0..Len(t) :
        e = HeadElement(Join(Drop(t, n)), level)

\* C1: after addText of a text that matches the header pattern, the element
\* appended is <hL>content</hL>, L the length of the '#' run and content the
\* text after the run and its space.
C1_HeaderLevelIsHashCount ==
    (last.op = "addText" /\ MatchesHeaderPattern(last.text)) =>
        \E ij \in HeaderSplits(last.text) :
            LastElement = HeadElement(Join(Drop(last.text, ij[2] + 1)), ij[2] - ij[1])

\* C8: every addText call appends exactly one element and keeps the earlier
\* ones; the element is a header exactly when the text matches the header
\* pattern, and is <p>text</p> with the text verbatim otherwise.
C8_AddTextAppendsOne ==
    [][last'.op = "addText" =>
        /\ Len(elementList') = Len(elementList) + 1
        /\ SubSeq(elementList', 1, Len(elementList)) = elementList
        /\ LET e == elementList'[Len(elementList')]
               t == last'.text
           IN  /\ IsHeaderOf(e, t) <=> MatchesHeaderPattern(t)
               /\ ~MatchesHeaderPattern(t) => e = "<p>" \o Join(t) \o "</p>"
               /\ t = PlainExample => e = "<p>plain</p>"]_vars

C8_Witness ==
    /\ last.op = "addText"
    /\ Len(elementList) = 2
    /\ MatchesHeaderPattern(last.text)
    /\ elementList[1] = ParagraphElement(Join(last.text))
    /\ IsHeaderOf(elementList[2], last.text)

\* The indices k of the <img src="cid:imgk"> elements, in element order.
RECURSIVE ImgRefs(_)
ImgRefs(elems) ==
    IF elems = <<>> THEN <<>>
    ELSE LET ks == {k \in 0..Len(elems) : Head(elems) = ImgElement(k)}
         IN  (IF ks = {} THEN <<>> ELSE <<CHOOSE k \in ks : TRUE>>)
             \o ImgRefs(Tail(elems))

\* C5: the image indices the elements refer to are strictly increasing, and
\* imageList holds exactly one entry per such element, in the same order.
C5_ImageRefsMatchImageList ==
    LET refs == ImgRefs(elementList)
    IN  /\ \A a, b \in 1..Len(refs) : a < b => refs[a] < refs[b]
        /\ Len(imageList) = Len(refs)
        /\ \A a \in 1..Len(refs) : imageList[a][1] = refs[a]

\* No element was added since the first build: every body attached so far
\* renders the elements the Email holds now.
AllBodiesCurrent ==
    \A k \in 1..Len(rootParts) :
        rootParts[k].ctype = "text/html" => rootParts[k].payload = Html(elementList)

\* C6: after k toBytes calls the root holds k body parts, and, when nothing
\* was added between the builds, k image parts per stored image; the bytes a
\* build returns hold all of them.
C6_BuildsAccumulateParts ==
    LET k == CountHeaders(rootHeaders, "Subject")
    IN  /\ CountParts(rootParts, "text/html") = k
        /\ AllBodiesCurrent =>
              CountParts(rootParts, "image/png") = k * Len(imageList)
        /\ last.op = "toBytes" => last.bytes.parts = rootParts

C6_Witness ==
    /\ last.op = "toBytes"
    /\ CountHeaders(rootHeaders, "Subject") = 2
    /\ Len(imageList) = 1
    /\ AllBodiesCurrent
    /\ CountParts(last.bytes.parts, "text/html") = 2
    /\ CountParts(last.bytes.parts, "image/png") = 2

\* The value of the last header of that name.
LastHeader(headers, name) ==
    headers[CHOOSE k \in 1..Len(headers) :
                /\ headers[k].name = name
                /\ \A j \in (k + 1)..Len(headers) : headers[j].name # name]

\* C2: send without a receivers argument on a server whose defaultReceivers
\* is unset or empty raises ValueError and makes no sendmail call.
C2_NoReceiversFails ==
    [][(/\ last'.op = "send"
        /\ last'.receivers = PyNone
        /\ server.defaultReceivers \in {PyNone, PyDict(<<>>)})
       => (last'.err = "ValueError" /\ outbox' = outbox)]_vars

C2_Witness ==
    /\ last.op = "send"
    /\ last.receivers = PyNone
    /\ server.defaultReceivers = PyNone
    /\ last.err = "ValueError"
    /\ outbox = <<>>

\* What one send call submitted: it made exactly one sendmail call, with the
\* envelope and the To header built from the map eff.
SubmittedFor(eff, before, after) ==
    /\ Len(after) = Len(before) + 1
    /\ SubSeq(after, 1, Len(before)) = before
    /\ after[Len(after)].to = [k \in 1..Len(eff.v) |-> eff.v[k][1]]
    /\ LastHeader(after[Len(after)].msg.headers, "To") = ReceiversHeader(eff)

\* C4 as first stated: whenever a receivers argument is passed, what the
\* call submits has its To header and its envelope built from that argument,
\* never from the stored default.
C4_ExplicitArgumentNeverReplaced ==
    [][(last'.op = "send" /\ last'.receivers # PyNone /\ outbox' # outbox)
       => SubmittedFor(last'.receivers, outbox, outbox')]_vars

\* C4, amended: the effective map is the argument when it is a non-empty
\* map, else the stored default when that is a non-empty map, else the call
\* fails; the To header the call adds and the envelope come from that map.
C4_EffectiveReceivers ==
    [][last'.op = "send" =>
        LET given == last'.receivers
            dflt == server.defaultReceivers
            nonEmpty(r) == r # PyNone /\ Len(r.v) > 0
        IN  IF nonEmpty(given) THEN SubmittedFor(given, outbox, outbox')
            ELSE IF nonEmpty(dflt) THEN SubmittedFor(dflt, outbox, outbox')
            ELSE last'.err = "ValueError"]_vars

C4_Witness ==
    /\ last.op = "send"
    /\ last.receivers = PyDict(<<PairB, PairA>>)
    /\ server.defaultReceivers = PyDict(<<PairA>>)
    /\ outbox # <<>>
    /\ outbox[Len(outbox)].to = <<"b@x.com", "a@x.com">>

\* C9: a send call that fails for lack of receivers leaves the Email as it
\* was.
C9_FailedSendLeavesMail ==
    [][(last'.op = "send" /\ last'.err = "ValueError") => UNCHANGED mailVars]_vars

\* C10: when every send call on the Email so far succeeded, each submitted
\* message holds exactly one From, one Subject and one To header, the To
\* header listing the envelope's receivers.
C10_OneHeaderEach ==
    (/\ \A k \in 1..Len(outbox) : outbox[k].accepted
     /\ CountHeaders(rootHeaders, "From") = Len(outbox))
    => \A k \in 1..Len(outbox) :
          /\ CountHeaders(outbox[k].msg.headers, "From") = 1
          /\ CountHeaders(outbox[k].msg.headers, "Subject") = 1
          /\ CountHeaders(outbox[k].msg.headers, "To") = 1

\* C3: initFromJson on a mapping that lacks a required key fails with the
\* error kind its handler names, the handler prints the template, and no
\* server is returned.
C3_MissingKeyIsConfigFormatError ==
    (/\ last.op = "initFromJson"
     /\ last.connects
     /\ RequiredKeys \ DOMAIN last.cfg # {})
    => (last.err = HandledKind /\ last.printed /\ ~last.returned)

\* How the items of Email.sequence are told apart.
ItemKind(i) ==
    CASE i.t = "str" -> "text"
      [] i.t = "list" /\ i.v # <<>> /\ i.v[1].t \in {"str", "list"} -> "rows"
      [] i.t = "list" -> "row"
      [] i.t = "image" -> "image"
      [] i.t = "df" -> "frame"
      [] OTHER -> "unsupported"

\* A "2-D row sequence": a non-empty list of lists.
Is2D(i) == i.t = "list" /\ i.v # <<>> /\ \A k \in 1..Len(i.v) : i.v[k].t = "list"

ItemError(i) ==
    CASE ItemKind(i) = "unsupported" -> "TypeError"
      [] ItemKind(i) = "rows" /\ (\E k \in 1..Len(i.v) : i.v[k].t \notin {"str", "list"})
            -> "TypeError"
      [] ItemKind(i) = "image" /\ ~i.png -> "OSError"
      [] OTHER -> "none"

\* The elements item i gives, n images having been stored before it.
ItemElements(i, n) ==
    CASE ItemKind(i) = "text" -> <<AddTextElement(i.v)>>
      [] ItemKind(i) = "rows" -> TableElements(i.v, PyNone, PyNone)
      [] ItemKind(i) = "row" -> TableElements(<<i>>, PyNone, PyNone)
      [] ItemKind(i) = "image" -> <<ImgElement(n)>>
      [] OTHER -> TableElements(i.values, PyList(i.columns), PyNone)

ImagesBefore(items, k) == Cardinality({j \in 1..(k - 1) : items[j].t = "image"})

\* C7 as first stated: an item that is not a string, a 2-D row sequence or an
\* image makes the constructor fail with TypeError.
C7_OtherItemsRaiseTypeError ==
    (/\ last.op = "sequence"
     /\ \E k \in 1..Len(last.items) :
           LET i == last.items[k]
           IN  i.t # "str" /\ ~Is2D(i) /\ i.t # "image")
    => last.err = "TypeError"

\* C7, amended: items are taken in order; a string gives the addText
\* element, a non-empty sequence whose first item is a sequence gives the
\* table of its rows, any other sequence gives a one-row table, an image an
\* <img> element, a DataFrame its table.  The first item that is none of
\* these raises TypeError, as does a table row that cannot be iterated; an
\* image that cannot be encoded raises the encoder's error.  When an item
\* raises, no Email is returned.
C7_SequenceDispatch ==
    [][last'.op = "sequence" =>
        LET items == last'.items
            bad == {k \in 1..Len(items) : ItemError(items[k]) # "none"}
        IN  IF bad = {}
            THEN /\ last'.err = "none"
                 /\ elementList' =
                        Flatten([k \in 1..Len(items) |->
                                    ItemElements(items[k], ImagesBefore(items, k))])
                 /\ Len(imageList') = ImagesBefore(items, Len(items) + 1)
            ELSE LET first == CHOOSE k \in bad : \A j \in bad : k <= j
                 IN  /\ last'.err = ItemError(items[first])
                     /\ ItemKind(items[first]) = "unsupported"
                            => last'.where = "sequence"
                     /\ UNCHANGED mailVars]_vars

C7_Witness ==
    /\ last.op = "sequence"
    /\ last.err = "none"
    /\ last.items = <<ListFlat, List2D>>
    /\ elementList = TableElements(<<Row12>>, PyNone, PyNone)
                        \o TableElements(<<Row12, Row3>>, PyNone, PyNone)

====
